---- MODULE Spec2Model ----
(***************************************************************************)
(* AuditClient of smsly-services/src/audit/frontend/audit.ts: the          *)
(* normalisation of an AuditEvent into the envelope, its serialisation,    *)
(* the POST to the gateway and the boolean the call reports.               *)
(*                                                                         *)
(* A call of logEvent runs synchronously up to its only await (the         *)
(* timestamp, JSON.stringify and the call of fetch), which is one step of  *)
(* the model; the settlement of the fetch promise is the second step.      *)
(* JavaScript values are tagged records, so that `||`, `?:` and            *)
(* JSON.stringify act on them as they do in the language.                  *)
(***************************************************************************)
EXTENDS Integers, Sequences, FiniteSets, TLC

(* ------------------------------ bounds -------------------------------- *)

\* Number of logEvent invocations the callers make on the shared client.
NumCalls == 2

\* Largest reading of the clock (new Date()).
MaxClock == 1

Calls == 1..NumCalls

(* ------------------------- JavaScript values -------------------------- *)

Undef == [t |-> "undefined"]

Str(s) == [t |-> "string", v |-> s]

Num(n) == [t |-> "number", v |-> n]

Bool(b) == [t |-> "boolean", v |-> b]

\* An object: f maps its own enumerable keys to values.
Obj(f) == [t |-> "object", v |-> f]

\* A reference from inside an object back to an object that encloses it.
Cyclic == [t |-> "cyclic"]

EmptyObj == Obj(<<>>)

\* ToBoolean: what `a || b` and `a ? b : c` test.
Truthy(v) ==
  CASE v.t = "undefined" -> FALSE
    [] v.t = "string"    -> v.v # ""
    [] v.t = "number"    -> v.v # 0
    [] v.t = "boolean"   -> v.v
    [] OTHER             -> TRUE

\* a || b
Or(a, b) == IF Truthy(a) THEN a ELSE b

\* { ...context }: the own keys of an object, nothing for undefined.
SpreadOf(v) == IF v.t = "object" THEN v.v ELSE <<>>

\* JSON.stringify throws a TypeError on a circular structure.
RECURSIVE StringifyThrows(_)
StringifyThrows(v) ==
  \/ v.t = "cyclic"
  \/ /\ v.t = "object"
     /\ \E k \in DOMAIN v.v : StringifyThrows(v.v[k])

\* JSON.stringify of a value that does not throw: the JSON document, in
\* which a key whose value is undefined does not appear.
RECURSIVE Stringify(_)
Stringify(v) ==
  IF v.t = "object"
  THEN Obj([k \in {j \in DOMAIN v.v : v.v[j].t # "undefined"} |-> Stringify(v.v[k])])
  ELSE v

(* ------------------------------ response ------------------------------ *)

\* response.ok with the upper end of the range off by one.
ResponseOkUpTo300(status) == status >= 200 /\ status <= 300

\* response.ok
ResponseOk(status) == status >= 200 /\ status <= 299

(* ------------------------------ envelope ------------------------------ *)

\* The envelope with actor_type read from the defaulted actor_id.
EnvelopeFromDefaulted(event, service) ==
  [ service       |-> Str(service),
    event_type    |-> event.event_type,
    event_category|-> Or(event.category, Str("general")),
    severity      |-> Or(event.severity, Str("info")),
    action        |-> event.action,
    actor_id      |-> Or(event.actor_id, Str("anonymous")),
    actor_type    |-> IF Truthy(Or(event.actor_id, Str("anonymous")))
                      THEN Str("user") ELSE Str("system"),
    resource_type |-> event.resource_type,
    resource_id   |-> event.resource_id,
    outcome       |-> Or(event.outcome, Str("success")),
    payload       |-> Or(event.payload, EmptyObj) ]

\* The envelope with the defaults of category and severity exchanged.
EnvelopeSwappedDefaults(event, service) ==
  [ service       |-> Str(service),
    event_type    |-> event.event_type,
    event_category|-> Or(event.category, Str("info")),
    severity      |-> Or(event.severity, Str("general")),
    action        |-> event.action,
    actor_id      |-> Or(event.actor_id, Str("anonymous")),
    actor_type    |-> IF Truthy(event.actor_id) THEN Str("user") ELSE Str("system"),
    resource_type |-> event.resource_type,
    resource_id   |-> event.resource_id,
    outcome       |-> Or(event.outcome, Str("success")),
    payload       |-> Or(event.payload, EmptyObj) ]

\* The object literal handed to JSON.stringify.
Envelope(event, service) ==
  [ service       |-> Str(service),
    event_type    |-> event.event_type,
    event_category|-> Or(event.category, Str("general")),
    severity      |-> Or(event.severity, Str("info")),
    action        |-> event.action,
    actor_id      |-> Or(event.actor_id, Str("anonymous")),
    actor_type    |-> IF Truthy(event.actor_id) THEN Str("user") ELSE Str("system"),
    resource_type |-> event.resource_type,
    resource_id   |-> event.resource_id,
    outcome       |-> Or(event.outcome, Str("success")),
    payload       |-> Or(event.payload, EmptyObj) ]

\* `${this.gatewayUrl}/api/v1/audit/events`
FetchUrl(base) == base \o "/api/v1/audit/events"

\* The headers with the fallback literal in place of this.serviceName.
HeadersFallbackName(service, timestamp) ==
  [ ContentType      |-> "application/json",
    XServiceName     |-> "smsly-frontend",
    XServiceTimestamp|-> timestamp ]

\* The headers of the request.
Headers(service, timestamp) ==
  [ ContentType      |-> "application/json",
    XServiceName     |-> service,
    XServiceTimestamp|-> timestamp ]

\* The arguments of fetch.
Request(base, service, timestamp, body) ==
  [ url     |-> FetchUrl(base),
    method  |-> "POST",
    headers |-> Headers(service, timestamp),
    body    |-> body ]

(* ----------------------- the convenience mappings --------------------- *)

\* An AuditEvent with every optional key undefined.
AuditEvent(type, action) ==
  [ event_type |-> type, action |-> action, actor_id |-> Undef,
    resource_type |-> Undef, resource_id |-> Undef, outcome |-> Undef,
    category |-> Undef, severity |-> Undef, payload |-> Undef ]

PageViewEvent(page, userId) ==
  [ AuditEvent(Str("page.view"), Str("view")) EXCEPT
      !.actor_id = userId, !.resource_type = Str("page"),
      !.resource_id = page, !.category = Str("general") ]

UserActionEvent(action, userId, details) ==
  [ AuditEvent(Str("user." \o action.v), action) EXCEPT
      !.actor_id = userId, !.category = Str("general"), !.payload = details ]

\* logLogin with severity left at "info" for a failed login.
LoginEventInfoOnFailure(userId, success, ip) ==
  [ AuditEvent(Str("auth.login"), Str("login")) EXCEPT
      !.actor_id = userId,
      !.outcome  = IF success.v THEN Str("success") ELSE Str("failure"),
      !.category = Str("auth"),
      !.severity = Str("info"),
      !.payload  = Obj([ip |-> ip]) ]

LoginEvent(userId, success, ip) ==
  [ AuditEvent(Str("auth.login"), Str("login")) EXCEPT
      !.actor_id = userId,
      !.outcome  = IF success.v THEN Str("success") ELSE Str("failure"),
      !.category = Str("auth"),
      !.severity = IF success.v THEN Str("info") ELSE Str("warning"),
      !.payload  = Obj([ip |-> ip]) ]

\* logApiCall with <= in place of <.
ApiCallEventUpTo400(endpoint, method, statusCode, userId) ==
  [ AuditEvent(Str("api.call"), Str(method.v \o " " \o endpoint.v)) EXCEPT
      !.actor_id = userId, !.resource_type = Str("api"),
      !.resource_id = endpoint,
      !.outcome = IF statusCode.v <= 400 THEN Str("success") ELSE Str("failure"),
      !.payload = Obj([status_code |-> statusCode]) ]

ApiCallEvent(endpoint, method, statusCode, userId) ==
  [ AuditEvent(Str("api.call"), Str(method.v \o " " \o endpoint.v)) EXCEPT
      !.actor_id = userId, !.resource_type = Str("api"),
      !.resource_id = endpoint,
      !.outcome = IF statusCode.v < 400 THEN Str("success") ELSE Str("failure"),
      !.payload = Obj([status_code |-> statusCode]) ]

\* payload: { error, ...context }: a key `error` of context wins.
ErrorEvent(error, context) ==
  [ AuditEvent(Str("error.client"), Str("error")) EXCEPT
      !.outcome = Str("failure"), !.severity = Str("error"),
      !.category = Str("security"),
      !.payload = Obj(SpreadOf(context) @@ [error |-> error]) ]

(* ------------------------------- state -------------------------------- *)

VARIABLES
  gatewayUrl,   \* this.gatewayUrl
  serviceName,  \* this.serviceName
  now,          \* the clock new Date() reads
  pc,           \* per call: "idle", "fetching" (suspended at the await),
                \*   "returned" (the promise fulfilled), "threw" (it rejected)
  entry,        \* per call: the method the caller invoked
  args,         \* per call: the arguments the caller passed
  event,        \* per call: the AuditEvent logEvent received
  timestamp,    \* per call: the local const timestamp
  made,         \* per call: the envelopes built
  sent,         \* per call: the requests handed to fetch
  reply,        \* per call: how the fetch promise settled
  ret,          \* per call: the value the call returned, <<>> while it has none
  console       \* per call: the number of console.error diagnostics it wrote

vars == << gatewayUrl, serviceName, now, pc, entry, args, event, timestamp,
           made, sent, reply, ret, console >>

Pending == [kind |-> "pending"]

(* ------------------------------- inputs ------------------------------- *)

\* Values of process.env.NEXT_PUBLIC_GATEWAY_URL.
EnvUrls == {Undef, Str(""), Str("https://gw.smsly.io")}

\* Values of process.env.NEXT_PUBLIC_SERVICE_NAME.
EnvNames == {Undef, Str(""), Str("smsly-backoffice-web")}

UserIds(wide) ==
  IF wide THEN {Undef, Str(""), Str("u1"), Str("anonymous")} ELSE {Str("u1")}

Payloads(wide) ==
  IF wide
  THEN {Undef, EmptyObj, Obj([k |-> Str("v")]), Obj([self |-> Cyclic])}
  ELSE {Undef, Obj([self |-> Cyclic])}

Events(wide) ==
  IF wide
  THEN [ event_type    : {Str("auth.login"), Str("")},
         action        : {Str("login")},
         actor_id      : UserIds(TRUE),
         resource_type : {Undef, Str("page")},
         resource_id   : {Undef, Str("/home")},
         outcome       : {Undef, Str("success"), Str("failure"), Str("blocked")},
         category      : {Undef, Str(""), Str("auth")},
         severity      : {Undef, Str(""), Str("warning")},
         payload       : Payloads(TRUE) ]
  ELSE [ event_type    : {Str("auth.login")},
         action        : {Str("login")},
         actor_id      : {Undef},
         resource_type : {Undef},
         resource_id   : {Undef},
         outcome       : {Undef},
         category      : {Undef},
         severity      : {Undef},
         payload       : Payloads(FALSE) ]

Statuses(wide) ==
  IF wide THEN {199, 200, 201, 299, 300, 399, 404, 500} ELSE {201, 500}

StatusCodes(wide) ==
  IF wide THEN {0, 200, 399, 400, 404, 500} ELSE {404}

(* ---------------------------- construction ---------------------------- *)

\* constructor(): each field is its environment variable, or the fallback
\* literal when that is unset or empty.
Init ==
  /\ \E e \in EnvUrls : gatewayUrl = Or(e, Str("http://localhost:8000")).v
  /\ \E e \in EnvNames : serviceName = Or(e, Str("smsly-frontend")).v
  /\ now = 0
  /\ pc = [c \in Calls |-> "idle"]
  /\ entry = [c \in Calls |-> "none"]
  /\ args = [c \in Calls |-> <<>>]
  /\ event = [c \in Calls |-> Undef]
  /\ timestamp = [c \in Calls |-> 0]
  /\ made = [c \in Calls |-> <<>>]
  /\ sent = [c \in Calls |-> <<>>]
  /\ reply = [c \in Calls |-> Pending]
  /\ ret = [c \in Calls |-> <<>>]
  /\ console = [c \in Calls |-> 0]

(* ------------------------------ logEvent ------------------------------ *)

\* The c-th invocation on the client has not been made, and is the next.
CanInvoke(c) ==
  /\ pc[c] = "idle"
  /\ IF c = 1 THEN TRUE ELSE pc[c - 1] # "idle"

\* logEvent up to its await, for the c-th invocation on the client, entered
\* through method m with arguments a: the timestamp is read, the envelope
\* is built and serialised (outside the try), and fetch is called.
Invoke(c, m, a, ev, t) ==
  LET envelope == Envelope(ev, serviceName)
  IN /\ now' = t
     /\ entry' = [entry EXCEPT ![c] = m]
     /\ args' = [args EXCEPT ![c] = a]
     /\ event' = [event EXCEPT ![c] = ev]
     /\ timestamp' = [timestamp EXCEPT ![c] = t]
     /\ made' = [made EXCEPT ![c] = Append(@, Obj(envelope))]
     /\ IF StringifyThrows(Obj(envelope))
        THEN /\ pc' = [pc EXCEPT ![c] = "threw"]
             /\ sent' = sent
        ELSE /\ pc' = [pc EXCEPT ![c] = "fetching"]
             /\ sent' = [sent EXCEPT ![c] =
                  Append(@, Request(gatewayUrl, serviceName, t,
                                    Stringify(Obj(envelope))))]
     /\ UNCHANGED << gatewayUrl, serviceName, reply, ret, console >>

LogEvent(c, wide) ==
  /\ CanInvoke(c)
  /\ \E ev \in Events(wide), t \in now..MaxClock :
       Invoke(c, "logEvent", [event |-> ev], ev, t)

LogPageView(c, wide) ==
  /\ CanInvoke(c)
  /\ \E page \in {Str("/home")}, userId \in UserIds(wide), t \in now..MaxClock :
       Invoke(c, "logPageView", [page |-> page, userId |-> userId],
              PageViewEvent(page, userId), t)

LogUserAction(c, wide) ==
  /\ CanInvoke(c)
  /\ \E action \in {Str("click")}, userId \in UserIds(wide) \ {Undef},
        details \in (IF wide THEN Payloads(TRUE) ELSE {Obj([k |-> Str("v")])}),
        t \in now..MaxClock :
       Invoke(c, "logUserAction",
              [action |-> action, userId |-> userId, details |-> details],
              UserActionEvent(action, userId, details), t)

LogLogin(c, wide) ==
  /\ CanInvoke(c)
  /\ \E userId \in UserIds(wide) \ {Undef}, success \in {Bool(TRUE), Bool(FALSE)},
        ip \in (IF wide THEN {Undef, Str("10.0.0.1")} ELSE {Str("10.0.0.1")}),
        t \in now..MaxClock :
       Invoke(c, "logLogin", [userId |-> userId, success |-> success, ip |-> ip],
              LoginEvent(userId, success, ip), t)

LogApiCall(c, wide) ==
  /\ CanInvoke(c)
  /\ \E endpoint \in (IF wide THEN {Str("/foo"), Str("")} ELSE {Str("/foo")}),
        method \in (IF wide THEN {Str("GET"), Str("POST")} ELSE {Str("GET")}),
        statusCode \in {Num(n) : n \in StatusCodes(wide)},
        userId \in UserIds(wide), t \in now..MaxClock :
       Invoke(c, "logApiCall",
              [endpoint |-> endpoint, method |-> method,
               statusCode |-> statusCode, userId |-> userId],
              ApiCallEvent(endpoint, method, statusCode, userId), t)

LogError(c, wide) ==
  /\ CanInvoke(c)
  /\ \E error \in {Str("boom")},
        context \in Payloads(wide) \cup
                    (IF wide THEN {Obj([error |-> Str("shadow")])} ELSE {}),
        t \in now..MaxClock :
       Invoke(c, "logError", [error |-> error, context |-> context],
              ErrorEvent(error, context), t)

\* The fulfilment with the response kept in a place the invocations share:
\* the call classifies the response another call received before it.
FetchResponseShared(c, wide) ==
  \E status \in Statuses(wide) :
    LET last == IF \E d \in Calls : reply[d].kind = "response"
                THEN reply[CHOOSE d \in Calls : reply[d].kind = "response"].status
                ELSE status
    IN /\ pc[c] = "fetching"
       /\ reply' = [reply EXCEPT ![c] = [kind |-> "response", status |-> status]]
       /\ ret' = [ret EXCEPT ![c] = << ResponseOk(last) >>]
       /\ pc' = [pc EXCEPT ![c] = "returned"]
       /\ UNCHANGED << gatewayUrl, serviceName, now, entry, args, event,
                       timestamp, made, sent, console >>

\* The fetch promise fulfils with a response: return response.ok.
FetchResponse(c, wide) ==
  \E status \in Statuses(wide) :
    /\ pc[c] = "fetching"
    /\ reply' = [reply EXCEPT ![c] = [kind |-> "response", status |-> status]]
    /\ ret' = [ret EXCEPT ![c] = << ResponseOk(status) >>]
    /\ pc' = [pc EXCEPT ![c] = "returned"]
    /\ UNCHANGED << gatewayUrl, serviceName, now, entry, args, event,
                    timestamp, made, sent, console >>

\* The fetch promise rejects (connection error, timeout, bad URL): the
\* catch block writes the diagnostic and returns false.
FetchError(c) ==
  /\ pc[c] = "fetching"
  /\ reply' = [reply EXCEPT ![c] = [kind |-> "rejected"]]
  /\ console' = [console EXCEPT ![c] = @ + 1]
  /\ ret' = [ret EXCEPT ![c] = << FALSE >>]
  /\ pc' = [pc EXCEPT ![c] = "returned"]
  /\ UNCHANGED << gatewayUrl, serviceName, now, entry, args, event,
                  timestamp, made, sent >>

(* --------------------------- specifications --------------------------- *)

\* Concurrent invocations on the one exported client.
Next ==
  \E c \in Calls :
    \/ LogEvent(c, FALSE)
    \/ LogPageView(c, FALSE)
    \/ LogUserAction(c, FALSE)
    \/ LogLogin(c, FALSE)
    \/ LogApiCall(c, FALSE)
    \/ LogError(c, FALSE)
    \/ FetchResponse(c, FALSE)
    \/ FetchError(c)

Spec == Init /\ [][Next]_vars

\* One invocation, over the wide input sets.
NextOneCall ==
  \/ LogEvent(1, TRUE)
  \/ LogPageView(1, TRUE)
  \/ LogUserAction(1, TRUE)
  \/ LogLogin(1, TRUE)
  \/ LogApiCall(1, TRUE)
  \/ LogError(1, TRUE)
  \/ FetchResponse(1, TRUE)
  \/ FetchError(1)

SpecOneCall == Init /\ [][NextOneCall]_vars

(* ------------------------------- claims ------------------------------- *)

\* The call has ended: its promise fulfilled or rejected.
Finished(c) == pc[c] \in {"returned", "threw"}

\* The call handed a request to fetch.
Transmitted(c) == Len(sent[c]) >= 1

\* The keys of the JSON body the call transmitted.
Wire(c) == sent[c][1].body.v

\* The keys of the envelope the call built.
Built(c) == made[c][1].v

Absent(v) == v.t = "undefined"

AbsentOrEmpty(v) == v.t = "undefined" \/ (v.t = "string" /\ v.v = "")

\* C1: every call of logEvent, made directly or through a convenience
\* method, ends by returning a boolean and never by throwing, and a call
\* that ends through an exception path (the transport failed, or the body
\* could not be serialised) returns false.
C1_TotalNonThrowing ==
  \A c \in Calls :
    /\ pc[c] # "threw"
    /\ pc[c] = "returned" =>
         /\ Len(ret[c]) = 1
         /\ reply[c].kind = "rejected" => ret[c] = << FALSE >>

\* C2: a call the gateway answered with an HTTP response returned true if
\* and only if the status is in 200..299.
C2_TrueIffSuccessStatus ==
  \A c \in Calls :
    (pc[c] = "returned" /\ reply[c].kind = "response") =>
      ret[c] = << reply[c].status \in 200..299 >>

C2_Witness ==
  \E c \in Calls :
    /\ pc[c] = "returned"
    /\ reply[c].kind = "response"
    /\ reply[c].status = 299
    /\ ret[c] = << TRUE >>

\* C3: every call that has ended built exactly one envelope and made
\* exactly one transmission attempt: never none, never a second.
C3_ExactlyOneAttempt ==
  \A c \in Calls :
    Finished(c) => (Len(made[c]) = 1 /\ Len(sent[c]) = 1)

\* C4 as stated: for every request that supplies an actor_id, any string
\* and the empty one too, the transmitted actor_id is the supplied value
\* and actor_type is "user".
C4_SuppliedActorIsUser ==
  \A c \in Calls :
    (Transmitted(c) /\ event[c].actor_id.t = "string") =>
      /\ Wire(c).actor_id = event[c].actor_id
      /\ Wire(c).actor_type = Str("user")

\* C4 as amended: for every request that supplies a non-empty actor_id the
\* transmitted actor_id is the supplied value and actor_type is "user"; a
\* supplied empty string is treated as an absent actor_id and transmitted
\* as actor_id "anonymous" with actor_type "system".
C4_NonEmptyActorIsUser ==
  \A c \in Calls :
    (Transmitted(c) /\ event[c].actor_id.t = "string") =>
      IF event[c].actor_id.v # ""
      THEN /\ Wire(c).actor_id = event[c].actor_id
           /\ Wire(c).actor_type = Str("user")
      ELSE /\ Wire(c).actor_id = Str("anonymous")
           /\ Wire(c).actor_type = Str("system")

C4_Witness ==
  \E c \in Calls :
    /\ Transmitted(c)
    /\ event[c].actor_id = Str("anonymous")
    /\ Wire(c).actor_id = Str("anonymous")
    /\ Wire(c).actor_type = Str("user")

\* C5 as stated: in the envelope, an optional field of the request is
\* replaced by its default exactly when it is absent (actor_id "anonymous"
\* with actor_type "system", event_category "general", severity "info",
\* outcome "success", payload {}), a present field keeps its supplied
\* value, and event_type and action are copied.
C5_DefaultExactlyWhenAbsent ==
  \A c \in Calls :
    Len(made[c]) >= 1 =>
      LET e == event[c]
          v == Built(c)
      IN /\ v.actor_id = IF Absent(e.actor_id) THEN Str("anonymous") ELSE e.actor_id
         /\ Absent(e.actor_id) => v.actor_type = Str("system")
         /\ v.event_category = IF Absent(e.category) THEN Str("general") ELSE e.category
         /\ v.severity = IF Absent(e.severity) THEN Str("info") ELSE e.severity
         /\ v.outcome = IF Absent(e.outcome) THEN Str("success") ELSE e.outcome
         /\ v.payload = IF Absent(e.payload) THEN EmptyObj ELSE e.payload
         /\ v.event_type = e.event_type
         /\ v.action = e.action

\* C5 as amended: in the envelope, an optional field of the request is
\* replaced by its default exactly when it is absent or the empty string
\* (actor_id "anonymous" with actor_type "system", event_category
\* "general", severity "info", outcome "success", payload {}), any other
\* present field keeps its supplied value, and event_type and action are
\* copied.
C5_DefaultWhenAbsentOrEmpty ==
  \A c \in Calls :
    Len(made[c]) >= 1 =>
      LET e == event[c]
          v == Built(c)
      IN /\ v.actor_id = IF AbsentOrEmpty(e.actor_id) THEN Str("anonymous") ELSE e.actor_id
         /\ AbsentOrEmpty(e.actor_id) => v.actor_type = Str("system")
         /\ v.event_category = IF AbsentOrEmpty(e.category) THEN Str("general") ELSE e.category
         /\ v.severity = IF AbsentOrEmpty(e.severity) THEN Str("info") ELSE e.severity
         /\ v.outcome = IF AbsentOrEmpty(e.outcome) THEN Str("success") ELSE e.outcome
         /\ v.payload = IF AbsentOrEmpty(e.payload) THEN EmptyObj ELSE e.payload
         /\ v.event_type = e.event_type
         /\ v.action = e.action

C5_Witness ==
  \E c \in Calls :
    /\ Len(made[c]) >= 1
    /\ entry[c] = "logEvent"
    /\ Absent(event[c].actor_id)
    /\ Absent(event[c].category)
    /\ Absent(event[c].payload)
    /\ event[c].severity = Str("")
    /\ event[c].outcome = Str("blocked")
    /\ Built(c).event_category = Str("general")
    /\ Built(c).severity = Str("info")
    /\ Built(c).outcome = Str("blocked")
    /\ Built(c).actor_type = Str("system")

\* C6: every call of logApiCall transmits a body with event_type
\* "api.call", action "{method} {endpoint}", resource_type "api",
\* resource_id the endpoint, payload {status_code: statusCode},
\* event_category "general", severity "info", and outcome "success" when
\* statusCode < 400 and "failure" otherwise.
C6_ApiCallEnvelope ==
  \A c \in Calls :
    entry[c] = "logApiCall" =>
      /\ Transmitted(c)
      /\ LET a == args[c]
             w == Wire(c)
         IN /\ w.event_type = Str("api.call")
            /\ w.action = Str(a.method.v \o " " \o a.endpoint.v)
            /\ w.resource_type = Str("api")
            /\ w.resource_id = a.endpoint
            /\ w.payload = Obj([status_code |-> a.statusCode])
            /\ w.event_category = Str("general")
            /\ w.severity = Str("info")
            /\ w.outcome = IF a.statusCode.v < 400 THEN Str("success") ELSE Str("failure")

C6_Witness ==
  \E c \in Calls :
    /\ entry[c] = "logApiCall"
    /\ Transmitted(c)
    /\ args[c].statusCode = Num(400)
    /\ Wire(c).outcome = Str("failure")
    /\ Wire(c).action = Str("POST /foo")

\* C7: every call of logLogin transmits a body with event_type
\* "auth.login" and event_category "auth", built from an envelope whose
\* payload is {ip} (which serialises to {} when ip is undefined); outcome
\* and severity are "success" and "info" when success is true, "failure"
\* and "warning" when it is false.
C7_LoginEnvelope ==
  \A c \in Calls :
    entry[c] = "logLogin" =>
      /\ Transmitted(c)
      /\ LET a == args[c]
             w == Wire(c)
         IN /\ w.event_type = Str("auth.login")
            /\ w.event_category = Str("auth")
            /\ Built(c).payload = Obj([ip |-> a.ip])
            /\ w.payload = IF Absent(a.ip) THEN EmptyObj ELSE Obj([ip |-> a.ip])
            /\ IF a.success.v
               THEN w.outcome = Str("success") /\ w.severity = Str("info")
               ELSE w.outcome = Str("failure") /\ w.severity = Str("warning")
            /\ w.outcome = Str("failure") <=> w.severity = Str("warning")

C7_Witness ==
  \E c \in Calls :
    /\ entry[c] = "logLogin"
    /\ Transmitted(c)
    /\ args[c].success = Bool(FALSE)
    /\ Absent(args[c].ip)
    /\ Wire(c).outcome = Str("failure")
    /\ Wire(c).severity = Str("warning")

\* C8: under every interleaving of the calls, what a call transmits is a
\* function of its own request, its own reading of the clock and the
\* configuration, and what it returns is a function of how its own fetch
\* settled: two calls with the same request transmit the same body and
\* service header, two calls whose fetches settled alike return alike, and
\* each result is the classification of the call's own response.
C8_CallsIndependent ==
  /\ \A c \in Calls :
       Transmitted(c) =>
         /\ Len(sent[c]) = 1
         /\ sent[c][1].body = Stringify(Obj(Envelope(event[c], serviceName)))
         /\ sent[c][1].headers.XServiceTimestamp = timestamp[c]
  /\ \A c \in Calls :
       pc[c] = "returned" =>
         ret[c] = << reply[c].kind = "response" /\ reply[c].status \in 200..299 >>
  /\ \A c, d \in Calls :
       /\ (Transmitted(c) /\ Transmitted(d) /\ event[c] = event[d]) =>
            /\ sent[c][1].body = sent[d][1].body
            /\ sent[c][1].headers.XServiceName = sent[d][1].headers.XServiceName
       /\ (pc[c] = "returned" /\ pc[d] = "returned" /\ reply[c] = reply[d]) =>
            ret[c] = ret[d]

\* The second call has returned true while the first, with another request,
\* is still in flight; it fails later or not at all.
C8_Witness ==
  /\ pc[1] = "fetching"
  /\ pc[2] = "returned"
  /\ event[1] # event[2]
  /\ reply[2].kind = "response"
  /\ ret[2] = << TRUE >>

\* C9: a call that has ended wrote a diagnostic exactly when it ended
\* through an exception path (the transport failed, or the body could not
\* be serialised), and then wrote exactly one and returned false; a call
\* answered with an HTTP status wrote none.
C9_DiagnosticIffExceptionPath ==
  \A c \in Calls :
    Finished(c) =>
      IF pc[c] = "threw" \/ reply[c].kind = "rejected"
      THEN console[c] = 1 /\ ret[c] = << FALSE >>
      ELSE console[c] = 0

\* Every request handed to fetch is a POST to the configured gateway's
\* /api/v1/audit/events whose X-Service-Name header and body field
\* `service` are the configured serviceName.
C10_WireMatchesConfig ==
  \A c \in Calls :
    \A i \in 1..Len(sent[c]) :
      /\ sent[c][i].method = "POST"
      /\ sent[c][i].url = gatewayUrl \o "/api/v1/audit/events"
      /\ sent[c][i].headers.XServiceName = serviceName
      /\ sent[c][i].body.v.service = Str(serviceName)

\* C10: no step of any call changes gatewayUrl or serviceName, and every
\* transmission is a POST to {gatewayUrl}/api/v1/audit/events whose
\* X-Service-Name header equals the body's service field and the
\* configured serviceName.
C10_ConfigurationFrame ==
  /\ [][gatewayUrl' = gatewayUrl /\ serviceName' = serviceName]_vars
  /\ []C10_WireMatchesConfig

\* Both calls have ended, one accepted and one failed, on a client
\* configured from the environment.
C10_Witness ==
  /\ serviceName = "smsly-backoffice-web"
  /\ gatewayUrl = "https://gw.smsly.io"
  /\ pc[1] = "returned" /\ ret[1] = << FALSE >>
  /\ pc[2] = "returned" /\ ret[2] = << TRUE >>
  /\ sent[2][1].url = "https://gw.smsly.io/api/v1/audit/events"

====
